---------------------------- MODULE Spec2Model ----------------------------
(***************************************************************************)
(* A model of the data-retrieval and ranking core of f1-bot:               *)
(*   - the domain queries of f1/api.py (get_soup, get_driver_info, ...,    *)
(*     get_driver_career with its asyncio.gather fan-out/join),            *)
(*   - the ranking/filtering helpers of f1/utils.py (rank_best_lap_times,  *)
(*     rank_pitstops, filter_times),                                       *)
(*   - the parsing of race and qualifying payloads in f1/api.py, and       *)
(*     find_driver, keep_fastest, get_wiki_thumbnail of f1/utils.py and    *)
(*     filter_pitstops of f1/api/stats.py.                                 *)
(*   - age, make_table, filter_laps_by_driver of f1/utils.py, the legacy    *)
(*     rank_best_lap_times of f1/api.py, and the transport's response      *)
(*     cache.                                                              *)
(* Five specifications share the variables:                                *)
(*   SpecFilter  the pure ranking/filtering functions applied to inputs    *)
(*               drawn in Init,                                            *)
(*   SpecQuery   one domain query called on its own,                       *)
(*   SpecCareer  get_driver_career and its five concurrent sub-queries,    *)
(*   SpecData    one call of a function that parses, resolves or           *)
(*               deduplicates data, on an input drawn in Init,             *)
(*   SpecCache   requests made through the response cache as time passes.  *)
(***************************************************************************)
EXTENDS Integers, Sequences, FiniteSets, TLC

VARIABLES
    timings,        \* SpecFilter: the 'data' list handed to rank_* (unsorted)
    sorted_times,   \* SpecFilter: the list handed to filter_times
    filter,         \* SpecFilter: the filter argument of the last call
    filtered,       \* SpecFilter: outcome of the last filter_times call
    prev,           \* SpecFilter: filter and outcome of the call before the reversal
    fpc,            \* SpecFilter: "input" | "ranked" | "filtered" | "reversed" | ...
    query,          \* SpecQuery: the domain query being called ("" when idle)
    call,           \* SpecQuery: the coroutine of that call (a task record)
    driver_id,      \* the driver_id argument of the call ("" when there is none)
    task,           \* SpecCareer: the five sub-query tasks made by gather
    outer,          \* SpecCareer: the future returned by asyncio.gather
    career,         \* SpecCareer: the get_driver_career coroutine
    reordered,      \* SpecCareer: history, some task finished before an earlier one
    op,             \* SpecData: the function called
    arg,            \* SpecData: its arguments and what the provider answers
    ret,            \* SpecData: its outcome
    dpc             \* SpecData: "idle" | "call" | "await_fetch" | "done" | "again"

vars == <<timings, sorted_times, filter, filtered, prev, fpc,
          query, call, driver_id, task, outer, career, reordered,
          op, arg, ret, dpc>>

filterVars == <<timings, sorted_times, filter, filtered, prev, fpc>>
queryVars  == <<query, call>>
careerVars == <<task, outer, career, reordered>>
dataVars   == <<op, arg, ret, dpc>>

(***************************************************************************)
(* Bounds of the model.                                                    *)
(***************************************************************************)
\* longest list of fastest-lap entries (one per driver, ranks 1..n)
MaxLen == 6
\* longest list of pit stops
MaxStops == 3
\* number of distinct drivers among the pit stops
MaxDrivers == 2
\* largest pit stop duration
MaxKey == 2
\* longest list of driver entries searched by find_driver
MaxList == 2
\* largest number of Result elements in a race payload
MaxResults == 3
\* the clock of the response cache runs from 0 to MaxTime
MaxTime == 3
\* longest expiry a request names
MaxExpire == 2
\* number of URLs requested through the cache
MaxUrls == 2
\* latest year of the calendar (years are counted from 0)
MaxYear == 4
\* largest number of laps in a lap-time dataset
MaxLaps == 2
\* largest 'total' attribute a provider payload carries
MaxTotal == 2
\* entries the provider puts in the payload of a request without a limit
\* parameter (its default page size)
PageSize == 1

(***************************************************************************)
(* Python values.                                                          *)
(***************************************************************************)
\* A str is a sequence of characters; None is a value of its own.
PyStr(chars) == [none |-> FALSE, s |-> chars]
PyNone == [none |-> TRUE, s |-> <<>>]

S_slowest == PyStr(<<"s","l","o","w","e","s","t">>)
S_fastest == PyStr(<<"f","a","s","t","e","s","t">>)
S_top     == PyStr(<<"t","o","p">>)
S_bottom  == PyStr(<<"b","o","t","t","o","m">>)
S_top5    == PyStr(<<"t","o","p","5">>)
S_empty   == PyStr(<<>>)

\* the filter arguments the callers pass
Filters == {S_slowest, S_fastest, S_top, S_bottom, S_top5, S_empty, PyNone}

\* sub in s, for two str
PyIn(sub, s) ==
    \E i \in 0..(Len(s.s) - Len(sub.s)) :
        SubSeq(s.s, i + 1, i + Len(sub.s)) = sub.s

\* lst[start:stop] with Python's handling of negative and out-of-range indices
PyClamp(i, n) ==
    LET j == IF i < 0 THEN i + n ELSE i
    IN  IF j < 0 THEN 0 ELSE IF j > n THEN n ELSE j

PySlice(lst, start, stop) ==
    SubSeq(lst, PyClamp(start, Len(lst)) + 1, PyClamp(stop, Len(lst)))

\* outcome of a call: a returned value or a raised exception
Ok(v) == [st |-> "ok", val |-> v]
Raise(e) == [st |-> e, val |-> <<>>]
NoCall == [st |-> "none", val |-> <<>>]

\* [lst[i]] for a 0-based or negative index i
PyItem(lst, i) ==
    LET j == IF i < 0 THEN i + Len(lst) ELSE i
    IN  IF j < 0 \/ j >= Len(lst) THEN Raise("IndexError") ELSE Ok(<<lst[j + 1]>>)

(***************************************************************************)
(* utils.py: ranking and filtering.                                        *)
(***************************************************************************)
\* an insertion of each entry BEFORE the entries of equal key: a sort that
\* reverses ties
RECURSIVE InsertByKey_before_equal(_, _)
InsertByKey_before_equal(e, lst) ==
    IF lst = <<>> THEN <<e>>
    ELSE IF lst[Len(lst)].key < e.key THEN Append(lst, e)
    ELSE Append(InsertByKey_before_equal(e, SubSeq(lst, 1, Len(lst) - 1)), lst[Len(lst)])

\* sorted(lst, key=itemgetter(k)): a stable insertion of each entry after
\* the entries whose key is not larger
RECURSIVE InsertByKey(_, _)
InsertByKey(e, lst) ==
    IF lst = <<>> THEN <<e>>
    ELSE IF lst[Len(lst)].key <= e.key THEN Append(lst, e)
    ELSE Append(InsertByKey(e, SubSeq(lst, 1, Len(lst) - 1)), lst[Len(lst)])

RECURSIVE Sorted(_)
Sorted(lst) ==
    IF lst = <<>> THEN <<>>
    ELSE InsertByKey(lst[Len(lst)], Sorted(SubSeq(lst, 1, Len(lst) - 1)))

rank_best_lap_times(data) == Sorted(data)

rank_pitstops(data) == Sorted(data)

\* filter_times with the two single-element branches exchanged
filter_times_ends_swapped(lst, f) ==
    IF f = S_slowest THEN PyItem(lst, 0)
    ELSE IF f = S_fastest THEN PyItem(lst, Len(lst) - 1)
    ELSE IF f.none THEN Raise("TypeError")
    ELSE IF PyIn(S_top, f) THEN Ok(PySlice(lst, 0, 5))
    ELSE IF PyIn(S_bottom, f) THEN Ok(PySlice(lst, Len(lst) - 5, Len(lst)))
    ELSE Ok(lst)

\* filter_times with the 'top' slice one short ([:4])
filter_times_top_short(lst, f) ==
    IF f = S_slowest THEN PyItem(lst, Len(lst) - 1)
    ELSE IF f = S_fastest THEN PyItem(lst, 0)
    ELSE IF f.none THEN Raise("TypeError")
    ELSE IF PyIn(S_top, f) THEN Ok(PySlice(lst, 0, 4))
    ELSE IF PyIn(S_bottom, f) THEN Ok(PySlice(lst, Len(lst) - 5, Len(lst)))
    ELSE Ok(lst)

\* filter_times with the 'bottom' slice one long ([len - 6:])
filter_times_bottom_long(lst, f) ==
    IF f = S_slowest THEN PyItem(lst, Len(lst) - 1)
    ELSE IF f = S_fastest THEN PyItem(lst, 0)
    ELSE IF f.none THEN Raise("TypeError")
    ELSE IF PyIn(S_top, f) THEN Ok(PySlice(lst, 0, 5))
    ELSE IF PyIn(S_bottom, f) THEN Ok(PySlice(lst, Len(lst) - 6, Len(lst)))
    ELSE Ok(lst)

filter_times(lst, f) ==
    IF f = S_slowest THEN PyItem(lst, Len(lst) - 1)
    ELSE IF f = S_fastest THEN PyItem(lst, 0)
    \* 'top' in None raises TypeError
    ELSE IF f.none THEN Raise("TypeError")
    ELSE IF PyIn(S_top, f) THEN Ok(PySlice(lst, 0, 5))
    ELSE IF PyIn(S_bottom, f) THEN Ok(PySlice(lst, Len(lst) - 5, Len(lst)))
    ELSE Ok(lst)

Reverse(lst) == [i \in 1..Len(lst) |-> lst[Len(lst) + 1 - i]]

\* fastest-lap entries of a race: one per driver, ranks 1..n, in finishing order
LapTimings ==
    UNION {
        { [i \in 1..n |-> [Driver |-> i, key |-> p[i]]] : p \in Permutations(1..n) }
        : n \in 0..MaxLen }

\* pit stops of a race: several per driver, durations may tie
PitStops == [Driver : 1..MaxDrivers, key : 1..MaxKey]

PitTimings == UNION { [1..n -> PitStops] : n \in 0..MaxStops }

(***************************************************************************)
(* api.py: transport, payloads and the domain queries.                     *)
(***************************************************************************)
\* the driver identities a provider payload may carry
DriverIds == {"alonso", "vettel"}

\* fetch(url) of a list URL: None, or the text of a payload.  `root` says
\* whether the payload holds the elements the query navigates through (its
\* root element and what hangs below it); `total` is the 'total' attribute
\* of the payload's top element and `n` the number of entries the payload
\* lists: the URLs carry no limit parameter, so the provider lists at most a
\* page of them.
NoResponse == [kind |-> "none", root |-> FALSE, total |-> 0, n |-> 0, driver |-> ""]

ListResponses ==
    {NoResponse}
    \cup {[kind |-> "text", root |-> FALSE, total |-> 0, n |-> 0, driver |-> ""]}
    \cup {[kind |-> "text", root |-> TRUE, total |-> k,
           n |-> IF k < PageSize THEN k ELSE PageSize, driver |-> ""] : k \in 0..MaxTotal}

\* fetch(url) of the drivers/{driver_id} URL
DriverResponses ==
    {NoResponse}
    \cup {[kind |-> "text", root |-> FALSE, total |-> 0, n |-> 0, driver |-> ""]}
    \cup {[kind |-> "text", root |-> TRUE, total |-> 0, n |-> 1, driver |-> d] : d \in DriverIds}

\* res = await fetch(url): what the transport may hand back for the URL of q
fetch(q) == IF q = "get_driver_info" THEN DriverResponses ELSE ListResponses

\* get_soup: None stays None, a text becomes a BeautifulSoup tree
get_soup(res) ==
    IF res.kind = "none" THEN res ELSE [res EXCEPT !.kind = "soup"]

Queries ==
    {"get_driver_info", "get_driver_standings", "get_team_standings",
     "get_all_drivers_and_teams", "get_race_schedule", "get_next_race",
     "get_race_results", "get_all_driver_lap_times", "get_qualifying_results",
     "get_driver_wins", "get_driver_poles", "get_driver_championships",
     "get_driver_teams", "get_driver_seasons"}

\* the queries that take a driver_id
DriverQueries ==
    {"get_driver_info", "get_all_driver_lap_times", "get_driver_wins",
     "get_driver_poles", "get_driver_championships", "get_driver_teams",
     "get_driver_seasons"}

\* the statement after the `if soup:` block: `raise MissingDataError()`, but
\* `return MissingDataError()` in get_driver_wins (l.607), get_driver_poles
\* (l.663) and get_driver_teams (l.745)
NoSoupExit(q) ==
    IF q \in {"get_driver_wins", "get_driver_poles", "get_driver_teams"}
    THEN "return"
    ELSE "raise"

\* the first use of the root element when the payload lacks it:
\*   an attribute of None (AttributeError): driver.givenname (l.59),
\*     race.date (l.304), race.resultslist (l.374), race.lapslist (l.461),
\*     race.qualifyinglist (l.528), soup.racetable.find_all (l.587, l.643),
\*     soup.standingstable.find_all (l.696, l.779),
\*     soup.constructortable.find_all (l.739);
\*   a subscript of None (TypeError): standings['season'] (l.107, l.158),
\*     soup.standingslist['season'] (l.208), soup.racetable['season'] (l.256)
RootError(q) ==
    IF q \in {"get_driver_standings", "get_team_standings",
              "get_all_drivers_and_teams", "get_race_schedule"}
    THEN "TypeError"
    ELSE "AttributeError"

\* the queries that `await get_driver_info(driver_id)` while building the
\* result (l.464, l.590, l.646, l.699)
AwaitsDriverInfo(q) ==
    q \in {"get_all_driver_lap_times", "get_driver_wins", "get_driver_poles",
           "get_driver_championships"}

\* the queries whose loop over the listed entries reads the team as
\* `<tag>.constructor.name.string` (l.600, l.656, l.708, l.742, l.789): the
\* attribute `name` of a Tag is the str 'constructor', which has no `string`
ReadsTagName ==
    {"get_driver_wins", "get_driver_poles", "get_driver_championships",
     "get_driver_teams", "get_driver_seasons"}

\* A coroutine of a domain query.
\*   pc:    "idle" | "created" | "await_soup" | "await_info" | "done"
\*   st:    "none" while running; "dict" (returned its result dict),
\*          "exc_obj" (returned an exception instance), "raised"
\*   err:   class of the exception raised or returned
\*   total: res['total'];  driver: res['driver']['id'] ("" when there is none)
\*   n:     the entries of the payload, len(res['data']) once returned
\*   soup, info: what get_soup yielded for the query's own URL and for the
\*          nested get_driver_info: "" | "none" | "noroot" | "ok"
\*   reqs:  the fetch(url) calls the coroutine has made
NoTask ==
    [pc |-> "idle", st |-> "none", err |-> "", total |-> 0, n |-> 0,
     driver |-> "", soup |-> "", info |-> "", reqs |-> 0]

Created == [NoTask EXCEPT !.pc = "created"]

AwaitSoup == [NoTask EXCEPT !.pc = "await_soup", !.reqs = 1]

SoupKind(soup) ==
    IF soup.kind = "none" THEN "none" ELSE IF soup.root THEN "ok" ELSE "noroot"

Returns(t, total, driver) ==
    [t EXCEPT !.pc = "done", !.st = "dict", !.total = total, !.driver = driver]

ReturnsExc(t, e) ==
    [t EXCEPT !.pc = "done", !.st = "exc_obj", !.err = e, !.total = 0, !.n = 0]

Raises(t, e) ==
    [t EXCEPT !.pc = "done", !.st = "raised", !.err = e, !.total = 0, !.n = 0]

\* get_driver_info (l.54-69) from the point where get_soup has returned
get_driver_info(t, soup) ==
    IF soup.kind = "none" THEN Raises(t, "MissingDataError")
    ELSE IF ~soup.root THEN Raises(t, "AttributeError")
    ELSE Returns(t, t.total, soup.driver)

\* the loop of query q that builds res['data'] (res['names']) from the t.n
\* listed entries, and the return that follows it
DataLoop(q, t) ==
    IF q \in ReadsTagName /\ t.n > 0
    THEN Raises([t EXCEPT !.driver = ""], "AttributeError")
    ELSE Returns(t, t.total, t.driver)

\* a domain query q that asks for its URL a second time when get_soup has
\* returned None
AfterSoup_retry(q, t0, soup) ==
    LET t == [t0 EXCEPT !.soup = SoupKind(soup)]
    IN  IF soup.kind = "none" /\ t0.reqs < 2 THEN [t EXCEPT !.reqs = t0.reqs + 1]
        ELSE IF q = "get_driver_info" THEN get_driver_info(t, soup)
        ELSE IF soup.kind = "none" THEN
            IF NoSoupExit(q) = "raise"
            THEN Raises(t, "MissingDataError")
            ELSE ReturnsExc(t, "MissingDataError")
        ELSE IF ~soup.root THEN Raises(t, RootError(q))
        ELSE IF AwaitsDriverInfo(q) THEN
            [t EXCEPT !.pc = "await_info", !.total = soup.total, !.n = soup.n,
                      !.reqs = t.reqs + 1]
        ELSE DataLoop(q, [t EXCEPT !.total = soup.total, !.n = soup.n])

\* a domain query q from the point where `soup = await get_soup(url)` has
\* returned, up to its next await or its end
AfterSoup(q, t0, soup) ==
    LET t == [t0 EXCEPT !.soup = SoupKind(soup)]
    IN  IF q = "get_driver_info" THEN get_driver_info(t, soup)
        ELSE IF soup.kind = "none" THEN
            IF NoSoupExit(q) = "raise"
            THEN Raises(t, "MissingDataError")
            ELSE ReturnsExc(t, "MissingDataError")
        ELSE IF ~soup.root THEN Raises(t, RootError(q))
        ELSE IF AwaitsDriverInfo(q) THEN
            [t EXCEPT !.pc = "await_info", !.total = soup.total, !.n = soup.n,
                      !.reqs = t.reqs + 1]
        ELSE DataLoop(q, [t EXCEPT !.total = soup.total, !.n = soup.n])

\* domain query q from the point where the nested get_driver_info call has
\* got its soup: its exception propagates, its dict becomes res['driver']
\* and the query goes on to its loop
AfterInfo(q, t0, soup) ==
    LET t == get_driver_info([t0 EXCEPT !.info = SoupKind(soup)], soup)
    IN  IF t.st = "dict" THEN DataLoop(q, t) ELSE t

\* the five sub-queries in the order get_driver_career hands them to
\* asyncio.gather with the first two exchanged
GatherOrder_swapped ==
    <<"get_driver_poles", "get_driver_wins", "get_driver_championships",
      "get_driver_seasons", "get_driver_teams">>

\* the five sub-queries in the order get_driver_career hands them to
\* asyncio.gather (l.834-838)
GatherOrder ==
    <<"get_driver_wins", "get_driver_poles", "get_driver_championships",
      "get_driver_seasons", "get_driver_teams">>

CareerQueries == {GatherOrder[i] : i \in 1..Len(GatherOrder)}

Position(q) == CHOOSE i \in 1..Len(GatherOrder) : GatherOrder[i] = q

\* the future of asyncio.gather(...) after the task of q has finished: the
\* first exception raised by a child is set on it at once; when the last
\* child has finished, the children's results are set on it, listed in the
\* order of the arguments
GatherDone(o, tasks, q) ==
    IF o.st # "pending" THEN o
    ELSE IF tasks[q].st = "raised" THEN
        [st |-> "exception", err |-> tasks[q].err, results |-> <<>>]
    ELSE IF \A p \in CareerQueries : tasks[p].pc = "done" THEN
        [st |-> "result", err |-> "",
         results |-> [i \in 1..Len(GatherOrder) |-> tasks[GatherOrder[i]]]]
    ELSE o

NoRes ==
    [driver |-> "", Wins |-> 0, Poles |-> 0, Championships |-> 0,
     Seasons |-> 0, Teams |-> 0]

\* get_driver_career l.833-859 from the point where the gather has its
\* results: [wins, poles, champs, seasons, teams] = results, then the dict
\* is built by subscripting each of them; an exception instance that a
\* sub-query returned is not subscriptable
ComposeCareer(results) ==
    LET wins    == results[1]
        poles   == results[2]
        champs  == results[3]
        seasons == results[4]
        teams   == results[5]
    IN  IF \E r \in {wins, poles, champs, seasons, teams} : r.st # "dict"
        THEN [pc |-> "raised", err |-> "TypeError", res |-> NoRes]
        ELSE [pc |-> "returned", err |-> "",
              res |-> [driver |-> wins.driver,
                       Wins |-> wins.total,
                       Poles |-> poles.total,
                       Championships |-> champs.total,
                       Seasons |-> seasons.total,
                       Teams |-> teams.total]]

IdleCareer ==
    /\ task = [q \in CareerQueries |-> NoTask]
    /\ outer = [st |-> "none", err |-> "", results |-> <<>>]
    /\ career = [pc |-> "idle", err |-> "", res |-> NoRes]
    /\ reordered = FALSE

IdleQuery ==
    /\ query = ""
    /\ call = NoTask

IdleData ==
    /\ op = ""
    /\ arg = <<>>
    /\ ret = NoCall
    /\ dpc = "idle"

(***************************************************************************)
(* SpecFilter: inputs drawn in Init; the actions apply the functions.      *)
(***************************************************************************)
IdleFilter ==
    /\ timings = <<>>
    /\ sorted_times = <<>>
    /\ filter = PyNone
    /\ filtered = NoCall
    /\ prev = [filter |-> PyNone, out |-> NoCall]
    /\ fpc = "idle"

InitFilter ==
    /\ timings \in LapTimings \cup PitTimings
    /\ sorted_times = <<>>
    /\ filter = PyNone
    /\ filtered = NoCall
    /\ prev = [filter |-> PyNone, out |-> NoCall]
    /\ fpc = "input"
    /\ driver_id = ""
    /\ IdleQuery
    /\ IdleCareer
    /\ IdleData

\* sorted_times = utils.rank_best_lap_times(times)  /  utils.rank_pitstops(times)
RankBestLapTimes ==
    /\ fpc = "input"
    /\ timings \in LapTimings
    /\ sorted_times' = rank_best_lap_times(timings)
    /\ fpc' = "ranked"
    /\ UNCHANGED <<timings, filter, filtered, prev, driver_id, queryVars, careerVars, dataVars>>

RankPitstops ==
    /\ fpc = "input"
    /\ timings \in PitTimings
    /\ sorted_times' = rank_pitstops(timings)
    /\ fpc' = "ranked"
    /\ UNCHANGED <<timings, filter, filtered, prev, driver_id, queryVars, careerVars, dataVars>>

\* a caller reverses the ranked list, before or after a first filter_times
\* call on it, and filters the reversed list
ReverseRanked ==
    /\ fpc \in {"ranked", "filtered"}
    /\ sorted_times' = Reverse(sorted_times)
    /\ prev' = [filter |-> filter, out |-> filtered]
    /\ filter' = PyNone
    /\ filtered' = NoCall
    /\ fpc' = "reversed"
    /\ UNCHANGED <<timings, driver_id, queryVars, careerVars, dataVars>>

\* utils.filter_times(sorted_times, filter)
FilterTimes ==
    /\ fpc \in {"ranked", "reversed"}
    /\ \E f \in Filters :
        /\ filter' = f
        /\ filtered' = filter_times(sorted_times, f)
    /\ fpc' = IF fpc = "ranked" THEN "filtered" ELSE "filtered_reversed"
    /\ UNCHANGED <<timings, sorted_times, prev, driver_id, queryVars, careerVars, dataVars>>

NextFilter ==
    \/ RankBestLapTimes
    \/ RankPitstops
    \/ ReverseRanked
    \/ FilterTimes

SpecFilter == InitFilter /\ [][NextFilter]_vars

(***************************************************************************)
(* SpecQuery: one domain query called on its own.                          *)
(***************************************************************************)
InitQuery ==
    /\ IdleFilter
    /\ driver_id = ""
    /\ IdleQuery
    /\ IdleCareer
    /\ IdleData

\* the caller awaits query q; the coroutine runs up to `await fetch(url)`
QueryCall ==
    /\ query = ""
    /\ \E q \in Queries :
        /\ query' = q
        /\ driver_id' \in (IF q \in DriverQueries THEN DriverIds ELSE {""})
    /\ call' = AwaitSoup
    /\ UNCHANGED <<filterVars, careerVars, dataVars>>

\* the transport answers the query's request
QuerySoup ==
    /\ call.pc = "await_soup"
    /\ \E res \in fetch(query) : call' = AfterSoup(query, call, get_soup(res))
    /\ UNCHANGED <<filterVars, driver_id, query, careerVars, dataVars>>

\* the transport answers the request of the nested get_driver_info
QueryInfo ==
    /\ call.pc = "await_info"
    /\ \E res \in fetch("get_driver_info") : call' = AfterInfo(query, call, get_soup(res))
    /\ UNCHANGED <<filterVars, driver_id, query, careerVars, dataVars>>

NextQuery ==
    \/ QueryCall
    \/ QuerySoup
    \/ QueryInfo

SpecQuery == InitQuery /\ [][NextQuery]_vars

\* the call of the query has returned or raised
QueryDone == query # "" /\ call.pc = "done"

\* C2: every domain query raises MissingDataError to its caller when
\* get_soup yields None for its URL; none of them returns a value then.
C2_NoPayloadRaises ==
    (QueryDone /\ call.soup = "none") =>
        (call.st = "raised" /\ call.err = "MissingDataError")

\* C3: a domain query whose payload lacks the expected root element fails
\* with MissingDataError, with no other error and with no result.
C3_NoRootRaisesMissingData ==
    (QueryDone /\ call.soup = "noroot") =>
        (call.st = "raised" /\ call.err = "MissingDataError")

\* C20: for the five career queries the returned 'total' equals the number
\* of returned entries for every career size, also beyond the provider's
\* default page size.
C20_TotalEqualsEntries ==
    (/\ QueryDone
     /\ query \in CareerQueries
     /\ call.soup = "ok"
     /\ call.info \in {"", "ok"}) =>
        (call.st = "dict" /\ call.total = call.n)

\* C25: get_driver_wins asks for the driver (get_driver_info) first and
\* only then for the list of results: while the request for the results is
\* in flight, the driver lookup has been answered.
C25_LookupPrecedesResults ==
    (query = "get_driver_wins" /\ call.pc = "await_soup") => call.info # ""

\* C27: no query retries a failed fetch: once the transport has returned no
\* payload for a URL the query has ended with MissingDataError as its
\* outcome, and it has made no request beyond the one that failed.
C27_NoRetryAfterNoPayload ==
    (query # "" /\ "none" \in {call.soup, call.info}) =>
        /\ call.pc = "done"
        /\ call.st \in {"raised", "exc_obj"}
        /\ call.err = "MissingDataError"
        /\ call.reqs = IF call.info = "none" THEN 2 ELSE 1

\* the nested driver lookup of a query got no payload after the query's own
\* request had been answered
C27_Witness ==
    /\ QueryDone
    /\ call.soup = "ok"
    /\ call.info = "none"
    /\ call.reqs = 2

(***************************************************************************)
(* SpecCareer: get_driver_career and its five concurrent sub-queries.      *)
(***************************************************************************)
InitCareer ==
    /\ IdleFilter
    /\ driver_id = ""
    /\ IdleQuery
    /\ IdleCareer
    /\ IdleData

\* get_driver_career(driver_id) runs up to `await asyncio.gather(...)`, which
\* makes one task of each of the five coroutines
CareerCall ==
    /\ career.pc = "idle"
    /\ driver_id' \in DriverIds
    /\ task' = [q \in CareerQueries |-> Created]
    /\ outer' = [outer EXCEPT !.st = "pending"]
    /\ career' = [career EXCEPT !.pc = "await_gather"]
    /\ UNCHANGED <<dataVars, filterVars, queryVars, reordered>>

\* the event loop runs the first step of a task, up to `await fetch(url)`;
\* the tasks were queued in the order of the arguments
TaskStart(q) ==
    /\ task[q].pc = "created"
    /\ \A p \in CareerQueries : Position(p) < Position(q) => task[p].pc # "created"
    /\ task' = [task EXCEPT ![q] = AwaitSoup]
    /\ UNCHANGED <<dataVars, filterVars, driver_id, queryVars, outer, career, reordered>>

\* a step of the task of q has ended in t: the bookkeeping of the gather
Finish(q, t) ==
    /\ task' = [task EXCEPT ![q] = t]
    /\ outer' = IF t.pc = "done" THEN GatherDone(outer, task', q) ELSE outer
    /\ reordered' =
        (\/ reordered
         \/ /\ t.pc = "done"
            /\ \E p \in CareerQueries :
                Position(p) < Position(q) /\ task[p].pc # "done")

\* answers are handled while tasks are still waiting for their first step
Dispatched_not_awaited == TRUE

\* the first steps of the five tasks were queued by the gather before any
\* answer of the transport can be handled: all of them have run
Dispatched == \A p \in CareerQueries : task[p].pc # "created"

\* the transport answers the request of sub-query q
TaskSoup(q) ==
    /\ task[q].pc = "await_soup"
    /\ Dispatched
    /\ \E res \in fetch(q) : Finish(q, AfterSoup(q, task[q], get_soup(res)))
    /\ UNCHANGED <<dataVars, filterVars, driver_id, queryVars, career>>

\* the transport answers the request of the get_driver_info nested in q
TaskInfo(q) ==
    /\ task[q].pc = "await_info"
    /\ \E res \in fetch("get_driver_info") :
        Finish(q, AfterInfo(q, task[q], get_soup(res)))
    /\ UNCHANGED <<dataVars, filterVars, driver_id, queryVars, career>>

\* the gather is done: get_driver_career resumes with its exception or
\* composes the aggregate from its results
CareerResume ==
    /\ career.pc = "await_gather"
    /\ outer.st \in {"exception", "result"}
    /\ career' =
        IF outer.st = "exception"
        THEN [pc |-> "raised", err |-> outer.err, res |-> NoRes]
        ELSE ComposeCareer(outer.results)
    /\ UNCHANGED <<dataVars, filterVars, driver_id, queryVars, task, outer, reordered>>

NextCareer ==
    \/ CareerCall
    \/ \E q \in CareerQueries : TaskStart(q)
    \/ \E q \in CareerQueries : TaskSoup(q)
    \/ \E q \in CareerQueries : TaskInfo(q)
    \/ CareerResume

SpecCareer == InitCareer /\ [][NextCareer]_vars

CareerDone == career.pc \in {"returned", "raised"}

\* sub-query q failed because the provider gave no payload
NoPayload(q) ==
    /\ task[q].pc = "done"
    /\ task[q].err = "MissingDataError"
    /\ "none" \in {task[q].soup, task[q].info}

\* C1: when one of the five sub-queries fails with MissingDataError because
\* the provider gave no payload (and the other four succeed), the whole
\* get_driver_career call fails with MissingDataError and returns no
\* aggregate, whichever sub-query it is.
C1_SubQueryFailureFailsCareer ==
    \A q \in CareerQueries :
        (/\ CareerDone
         /\ NoPayload(q)
         /\ \A p \in CareerQueries \ {q} : task[p].st = "dict") =>
            (career.pc = "raised" /\ career.err = "MissingDataError")

C26_AllFiveDispatched ==
    (CareerDone \/ \E q \in CareerQueries : task[q].pc = "done") =>
        \A p \in CareerQueries : task[p].reqs >= 1

\* get_driver_career failed on its first sub-query while the four others
\* were still waiting for their answers
C26_Witness ==
    /\ career.pc = "raised"
    /\ task["get_driver_wins"].st = "raised"
    /\ \A p \in CareerQueries \ {"get_driver_wins"} :
        task[p].pc = "await_soup" /\ task[p].reqs = 1

(***************************************************************************)
(* Properties of filter_times (SpecFilter).                                *)
(***************************************************************************)
Range(lst) == { lst[i] : i \in 1..Len(lst) }

Min(a, b) == IF a < b THEN a ELSE b

\* a filter_times call on the list in sorted_times has returned or raised
Filtered == fpc \in {"filtered", "filtered_reversed"}

LastN(lst, n) == SubSeq(lst, Len(lst) - n + 1, Len(lst))

FirstN(lst, n) == SubSeq(lst, 1, n)

\* C6: filter_times(sorted_times, 'bottom') returns the last min(5, n)
\* elements of the input in their original order, for every length n >= 0.
C6_BottomLastFive ==
    (Filtered /\ filter = S_bottom) =>
        filtered = Ok(LastN(sorted_times, Min(5, Len(sorted_times))))

\* C7: filter_times called with filter None returns the full input sequence
\* unchanged and does not fail.
C7_NoFilterUnchanged ==
    (Filtered /\ filter = PyNone) => filtered = Ok(sorted_times)

\* C8: on a non-empty ranked sequence 'fastest' returns exactly one element,
\* which has the minimum key of the whole input, and 'slowest' returns exactly
\* one element, which has the maximum key of the whole input.
C8_FastestSlowestExtremes ==
    (fpc = "filtered" /\ timings # <<>>) =>
        /\ filter = S_fastest =>
            /\ filtered.st = "ok"
            /\ Len(filtered.val) = 1
            /\ filtered.val[1] \in Range(timings)
            /\ \A e \in Range(timings) : filtered.val[1].key <= e.key
        /\ filter = S_slowest =>
            /\ filtered.st = "ok"
            /\ Len(filtered.val) = 1
            /\ filtered.val[1] \in Range(timings)
            /\ \A e \in Range(timings) : filtered.val[1].key >= e.key

\* a ranked list whose first and last keys differ has been filtered by
\* 'fastest'
C8_Witness ==
    /\ fpc = "filtered"
    /\ filter = S_fastest
    /\ Len(sorted_times) >= 2
    /\ timings # sorted_times
    /\ filtered.st = "ok"
    /\ filtered.val[1].key < sorted_times[Len(sorted_times)].key

\* C9: filter_times(sorted_times, 'top') returns the first min(5, n) elements
\* of the input in their original order and never fails.
C9_TopFirstFive ==
    (Filtered /\ filter = S_top) =>
        filtered = Ok(FirstN(sorted_times, Min(5, Len(sorted_times))))

\* 'top' has cut a list longer than 5 down to its first 5 elements
C9_Witness ==
    /\ Filtered
    /\ filter = S_top
    /\ Len(sorted_times) > 5
    /\ filtered.st = "ok"
    /\ Len(filtered.val) = 5

\* C10: for a sequence s of at least 5 entries, the entries of
\* filter_times(s, 'top') are the entries of filter_times(reverse(s), 'bottom').
C10_TopIsBottomOfReverse ==
    (/\ fpc = "filtered_reversed"
     /\ prev.filter = S_top
     /\ filter = S_bottom
     /\ Len(sorted_times) >= 5) =>
        /\ prev.out.st = "ok"
        /\ filtered.st = "ok"
        /\ Range(prev.out.val) = Range(filtered.val)

\* 'top' of s and 'bottom' of reverse(s) were both taken of a list longer
\* than 5, so that both leave an entry out
C10_Witness ==
    /\ fpc = "filtered_reversed"
    /\ prev.filter = S_top
    /\ filter = S_bottom
    /\ Len(sorted_times) > 5
    /\ filtered.st = "ok"
    /\ Range(filtered.val) # Range(sorted_times)

\* the entries of lst whose key is k, in their order
WithKey(lst, k) == SelectSeq(lst, LAMBDA e : e.key = k)

\* C28: rank_best_lap_times and rank_pitstops return a permutation of their
\* input in ascending order of the key, entries of equal key in their input
\* order, and leave the input list as it was.
C28_RankStableAscending ==
    [][(fpc = "input" /\ fpc' = "ranked") =>
        /\ timings' = timings
        /\ Len(sorted_times') = Len(timings)
        /\ \A i \in 1..(Len(sorted_times') - 1) :
            sorted_times'[i].key <= sorted_times'[i + 1].key
        /\ \A k \in 1..(MaxLen + MaxKey) :
            WithKey(sorted_times', k) = WithKey(timings, k)]_vars

\* pit stops were ranked of which two of different drivers tie, and the
\* ranking moved an entry
C28_Witness ==
    /\ fpc = "ranked"
    /\ sorted_times # timings
    /\ \E i, j \in 1..Len(timings) :
        /\ i < j
        /\ timings[i].key = timings[j].key
        /\ timings[i].Driver # timings[j].Driver

(***************************************************************************)
(* utils.py: keep_fastest.                                                 *)
(***************************************************************************)
\* lists of pit stops as the provider gives them: `Lap` tells the entries of
\* a list apart
StopLists ==
    UNION {
        { [i \in 1..n |-> [Driver |-> f[i].Driver, key |-> f[i].key, Lap |-> i]]
          : f \in [1..n -> PitStops] }
        : n \in 0..MaxStops }

\* position of the entry of driver drv in the dict `seen`, which keeps its
\* keys in insertion order (0: drv not in seen)
SeenIndex(seen, drv) ==
    IF \E i \in 1..Len(seen) : seen[i].Driver = drv
    THEN CHOOSE i \in 1..Len(seen) : seen[i].Driver = drv
    ELSE 0

\* the loop body with `<=` for `<`: a later entry replaces an equal one
keep_step_ties_replace(seen, d, key) ==
    LET i == SeenIndex(seen, d.Driver)
    IN  IF i = 0 THEN Append(seen, d)
        ELSE IF d[key] <= seen[i][key] THEN [seen EXCEPT ![i] = d]
        ELSE seen

\* the loop body replacing by `del seen[k]; seen[k] = d`: the replaced
\* driver moves to the end of the dict
keep_step_moves_replaced(seen, d, key) ==
    LET i == SeenIndex(seen, d.Driver)
    IN  IF i = 0 THEN Append(seen, d)
        ELSE IF d[key] < seen[i][key]
             THEN Append(SelectSeq(seen, LAMBDA e : e.Driver # d.Driver), d)
        ELSE seen

\* the loop body:
\*   if d['Driver'] not in seen or d[key] < seen[d['Driver']][key]:
\*       seen[d['Driver']] = d
keep_step(seen, d, key) ==
    LET i == SeenIndex(seen, d.Driver)
    IN  IF i = 0 THEN Append(seen, d)
        ELSE IF d[key] < seen[i][key] THEN [seen EXCEPT ![i] = d]
        ELSE seen

RECURSIVE keep_loop(_, _, _)
keep_loop(seen, lst, key) ==
    IF lst = <<>> THEN seen
    ELSE keep_loop(keep_step(seen, Head(lst), key), Tail(lst), key)

\* keep_fastest returning the kept entries newest first
keep_fastest_newest_first(lst, key) == Reverse(keep_loop(<<>>, lst, key))

\* seen = {}; the loop; return list(seen.values())
keep_fastest(lst, key) == keep_loop(<<>>, lst, key)

\* utils.keep_fastest(lst, key)
KeepFastest ==
    /\ op = "keep_fastest"
    /\ dpc = "call"
    /\ ret' = Ok(keep_fastest(arg.lst, arg.key))
    /\ dpc' = "done"
    /\ UNCHANGED <<op, arg, filterVars, driver_id, queryVars, careerVars>>

\* the caller hands the result to keep_fastest once more
KeepFastestAgain ==
    /\ op = "keep_fastest"
    /\ dpc = "done"
    /\ arg' = [arg EXCEPT !.lst = ret.val, !.first = arg.lst]
    /\ ret' = Ok(keep_fastest(ret.val, arg.key))
    /\ dpc' = "again"
    /\ UNCHANGED <<op, filterVars, driver_id, queryVars, careerVars>>

(***************************************************************************)
(* utils.py: find_driver.                                                  *)
(***************************************************************************)
UpperCase == <<"A","B","C","D","E","F","G","H","I","J","K","L","M",
               "N","O","P","Q","R","S","T","U","V","W","X","Y","Z">>
LowerCase == <<"a","b","c","d","e","f","g","h","i","j","k","l","m",
               "n","o","p","q","r","s","t","u","v","w","x","y","z">>

\* str.casefold() and str.upper() on ASCII text
casefold(x) ==
    PyStr([i \in 1..Len(x.s) |->
        IF \E k \in 1..26 : UpperCase[k] = x.s[i]
        THEN LowerCase[CHOOSE k \in 1..26 : UpperCase[k] = x.s[i]]
        ELSE x.s[i]])

upper(x) ==
    PyStr([i \in 1..Len(x.s) |->
        IF \E k \in 1..26 : LowerCase[k] = x.s[i]
        THEN UpperCase[CHOOSE k \in 1..26 : LowerCase[k] = x.s[i]]
        ELSE x.s[i]])

\* the drivers of the dataset (MRData.DriverTable.Drivers): slug, number
\* and code of each
Slugs   == <<PyStr(<<"h", "i", "l", "l">>),
             PyStr(<<"d", "a", "m", "o", "n", "_", "h", "i", "l", "l">>),
             PyStr(<<"a", "l", "o", "n", "s", "o">>)>>
Numbers == <<PyStr(<<"0">>), PyStr(<<"1", "7">>), PyStr(<<"1", "4">>)>>
Codes   == <<PyStr(<<"H", "I", "L">>), PyStr(<<"D", "H", "I">>), PyStr(<<"A", "L", "O">>)>>

\* the entries a driver of the dataset may have: every value is a str
DriverEntries ==
    { [ driverId        |-> Slugs[i],
        permanentNumber |-> Numbers[i],
        code            |-> Codes[i],
        url             |-> PyStr(<<"h", "t", "t", "p", ":", "/", "/", "e", "n", ".", "w", "i", "k", "i", "p", "e", "d", "i", "a", ".", "o", "r", "g", "/", "w", "i", "k", "i", "/", "D", "a", "m", "o", "n", "_", "H", "i", "l", "l">>),
        givenName       |-> PyStr(<<"D", "a", "m", "o", "n">>),
        familyName      |-> fam,
        dateOfBirth     |-> PyStr(<<"1", "9", "6", "0", "-", "0", "9", "-", "1", "7">>),
        nationality     |-> PyStr(<<"B", "r", "i", "t", "i", "s", "h">>) ] :
      i \in 1..3, fam \in {PyStr(<<"H", "i", "l", "l">>), PyStr(<<"A", "l", "o", "n", "s", "o">>)} }

\* the values the dataset keeps unique per driver
KeyFields == {"driverId", "permanentNumber", "code"}

\* driver lists: no two entries share a slug, a code or a number
DriverLists ==
    UNION {
        { l \in [1..n -> DriverEntries] :
            \A i, j \in 1..n : \A k \in KeyFields : i # j => l[i][k] # l[j][k] }
        : n \in 0..MaxList }

\* d.values()
Values(d) == { d[k] : k \in DOMAIN d }

\* the identifiers callers pass: any value of the dataset in its own, lower
\* or upper case, and an identifier of no driver
S_smc12 == PyStr(<<"s", "m", "c", "1", "2">>)

DriverIdentifiers ==
    LET vals == UNION { Values(d) : d \in DriverEntries }
    IN  vals \cup { casefold(v) : v \in vals } \cup { upper(v) : v \in vals }
            \cup {S_smc12}

\* str(id).casefold() in (str(v).casefold() for v in d.values())
Matches(id, d) == casefold(id) \in { casefold(v) : v \in Values(d) }

\* for d in drivers: if ...: return d;  raise DriverNotFoundError()
find_driver(id, drivers) ==
    IF \E i \in 1..Len(drivers) : Matches(id, drivers[i])
    THEN Ok(drivers[CHOOSE i \in 1..Len(drivers) :
                /\ Matches(id, drivers[i])
                /\ \A j \in 1..(i - 1) : ~Matches(id, drivers[j])])
    ELSE Raise("DriverNotFoundError")

\* utils.find_driver(id, drivers)
FindDriver ==
    /\ op = "find_driver"
    /\ dpc = "call"
    /\ ret' = find_driver(arg.id, arg.drivers)
    /\ dpc' = "done"
    /\ UNCHANGED <<op, arg, filterVars, driver_id, queryVars, careerVars>>

(***************************************************************************)
(* api.py: get_race_results on a payload that parsed into a soup.          *)
(***************************************************************************)
Digits == <<"0","1","2","3","4","5","6","7","8","9">>

\* int(x) for a str of decimal digits
RECURSIVE int_chars(_)
int_chars(cs) ==
    IF cs = <<>> THEN 0
    ELSE 10 * int_chars(SubSeq(cs, 1, Len(cs) - 1))
            + (CHOOSE k \in 0..9 : Digits[k + 1] = cs[Len(cs)])

int(x) == int_chars(x.s)

\* the text the provider writes for a number below 10
Text(n) == PyStr(<<Digits[n + 1]>>)

\* an element of the soup: its tag, the attribute or text the query reads
\* from it, and its child elements in document order
Tag(name, v, kids) == [tag |-> name, val |-> v, children |-> kids]
NoTag == Tag("", PyNone, <<>>)

S_finish_time == PyStr(<<"1",":","3","4",":","5","0">>)
S_lap_time    == PyStr(<<"1",":","2","6">>)
S_speed       == PyStr(<<"2","0","6",".","0","1","8">>)
S_Finished    == PyStr(<<"F","i","n","i","s","h","e","d">>)
S_Engine      == PyStr(<<"E","n","g","i","n","e">>)

\* <Result position=p> of driver p: a finisher has a <Time>, a retiree has
\* none; rank is 0 when the driver set no timed lap
ResultTag(p, finished, rank) ==
    [ tag |-> "result", val |-> Text(p),
      children |->
        <<Tag("driver", Text(p), <<>>),
          Tag("status", IF finished THEN S_Finished ELSE S_Engine, <<>>)>>
        \o (IF finished THEN <<Tag("time", S_finish_time, <<>>)>> ELSE <<>>)
        \o (IF rank = 0 THEN <<>>
            ELSE <<Tag("fastestlap", Text(rank),
                       <<Tag("time", S_lap_time, <<>>),
                         Tag("averagespeed", S_speed, <<>>)>>)>>) ]

\* the payloads: results in finishing order; the ranks of the fastest laps
\* are 1..k in any order over the k drivers who set one
RacePayloads ==
    UNION {
        { [i \in 1..n |-> ResultTag(i, fin[i], rk[i])] :
            fin \in [1..n -> BOOLEAN],
            rk \in { r \in [1..n -> 0..n] :
                      /\ \A i, j \in 1..n : (i # j /\ r[i] # 0) => r[i] # r[j]
                      /\ \A i \in 1..n :
                            r[i] # 0 => \A k \in 1..r[i] : \E j \in 1..n : r[j] = k } }
        : n \in 0..MaxResults }

\* tag.<name>: the first child element called name, None when there is none
Child(t, name) ==
    IF \E i \in 1..Len(t.children) : t.children[i].tag = name
    THEN t.children[CHOOSE i \in 1..Len(t.children) :
            /\ t.children[i].tag = name
            /\ \A j \in 1..(i - 1) : t.children[j].tag # name]
    ELSE NoTag

\* siblings[i].find_next_sibling(name): the first element called name
\* AFTER the element itself among the children of its parent
find_next_sibling(siblings, i, name) ==
    IF \E j \in (i + 1)..Len(siblings) : siblings[j].tag = name
    THEN siblings[CHOOSE j \in (i + 1)..Len(siblings) :
            /\ siblings[j].tag = name
            /\ \A k \in (i + 1)..(j - 1) : siblings[k].tag # name]
    ELSE NoTag

\* the res['data'] entry of race_results[i]
race_data(race_results, i) ==
    LET result == race_results[i]
        finish_time == find_next_sibling(race_results, i, "time")
    IN  [ Pos    |-> int(result.val),
          Driver |-> Child(result, "driver").val,
          Time   |-> IF finish_time = NoTag THEN PyNone ELSE finish_time.val,
          Status |-> Child(result, "status").val ]

\* the res['timings'] entry of a result with a fastest lap
race_timing(result) ==
    LET fastest_lap == Child(result, "fastestlap")
    IN  [ Rank   |-> int(fastest_lap.val),
          Driver |-> Child(result, "driver").val,
          Time   |-> Child(fastest_lap, "time").val,
          Speed  |-> Child(fastest_lap, "averagespeed").val ]

\* the timings in ascending order of Rank
RECURSIVE race_timings_ranked(_)
race_timings_ranked(race_results) ==
    LET n == Len(race_results)
        laps == { i \in 1..n : Child(race_results[i], "fastestlap") # NoTag }
    IN  IF laps = {} THEN <<>>
        ELSE LET last == CHOOSE i \in laps : \A j \in laps :
                            int(Child(race_results[j], "fastestlap").val)
                                <= int(Child(race_results[i], "fastestlap").val)
             IN  Append(race_timings_ranked(
                            [k \in 1..n |->
                                IF k = last
                                THEN [race_results[k] EXCEPT !.children =
                                        SelectSeq(@, LAMBDA c : c.tag # "fastestlap")]
                                ELSE race_results[k]]),
                        race_timing(race_results[last]))

\* for result in race_results: if fastest_lap is not None: append
RECURSIVE race_timings(_)
race_timings(race_results) ==
    IF race_results = <<>> THEN <<>>
    ELSE LET n == Len(race_results)
             rest == race_timings(SubSeq(race_results, 1, n - 1))
         IN  IF Child(race_results[n], "fastestlap") # NoTag
             THEN Append(rest, race_timing(race_results[n]))
             ELSE rest

\* the 'data' and 'timings' of the returned dict (its other keys copy the
\* attributes of <Race>)
get_race_results(race_results) ==
    Ok([ data    |-> [i \in 1..Len(race_results) |-> race_data(race_results, i)],
         timings |-> race_timings(race_results) ])

\* api.get_race_results(rnd, season), from the soup on
GetRaceResults ==
    /\ op = "get_race_results"
    /\ dpc = "call"
    /\ ret' = get_race_results(arg.race_results)
    /\ dpc' = "done"
    /\ UNCHANGED <<op, arg, filterVars, driver_id, queryVars, careerVars>>

(***************************************************************************)
(* api.py: the qualifying times in get_qualifying_results and              *)
(* get_driver_poles, on a payload that parsed into a soup.                 *)
(***************************************************************************)
S_Ferrari == PyStr(<<"F","e","r","r","a","r","i">>)

\* the text of the <Q1>, <Q2>, <Q3> element
S_q(k) == PyStr(<<"1", ":", "2", Digits[k + 1]>>)

Sessions == <<"q1", "q2", "q3">>

\* <QualifyingResult position=p> with the session times in `has`
QualifyingResultTag(p, has) ==
    [ tag |-> "qualifyingresult", val |-> Text(p),
      children |->
        <<Tag("driver", Text(p), <<>>),
          Tag("constructor", PyNone, <<Tag("name", S_Ferrari, <<>>)>>)>>
        \o SelectSeq([k \in 1..3 |-> Tag(Sessions[k], S_q(k), <<>>)],
                     LAMBDA c : c.tag \in has) ]

\* the payloads: drivers with any of the three session times missing
QualifyingPayloads ==
    UNION {
        { [i \in 1..n |-> QualifyingResultTag(i, has[i])] :
            has \in [1..n -> SUBSET {"q1", "q2", "q3"}] }
        : n \in 0..MaxResults }

\* tag.name: the name of the tag itself, a str (kept whole)
TagName(t) == PyStr(<<t.tag>>)

\* x.string: the text of a Tag; None and str have no such attribute
string(x) ==
    IF "tag" \in DOMAIN x /\ x # NoTag THEN Ok(x.val)
    ELSE Raise("AttributeError")

\* the outcome of building a dict from the outcomes of its values, which
\* are evaluated in the order written: the first exception ends it
RECURSIVE FirstRaise(_)
FirstRaise(outcomes) ==
    IF outcomes = <<>> THEN NoCall
    ELSE IF Head(outcomes).st # "ok" THEN Head(outcomes)
    ELSE FirstRaise(Tail(outcomes))

\* a list built by a loop from the outcomes of its entries
ListOf(outcomes) ==
    IF FirstRaise(outcomes) # NoCall THEN FirstRaise(outcomes)
    ELSE Ok([i \in 1..Len(outcomes) |-> outcomes[i].val])

\* result.q1.string if result.q1 is not None else None
guarded(result, name) ==
    IF Child(result, name) # NoTag THEN string(Child(result, name)) ELSE Ok(PyNone)

\* the res['data'] entry of get_qualifying_results (l.540-548)
qualifying_data(result) ==
    LET team == string(Child(Child(result, "constructor"), "name"))
        Q1 == guarded(result, "q1")
        Q2 == guarded(result, "q2")
        Q3 == guarded(result, "q3")
    IN  IF FirstRaise(<<team, Q1, Q2, Q3>>) # NoCall
        THEN FirstRaise(<<team, Q1, Q2, Q3>>)
        ELSE Ok([ Pos |-> int(result.val), Driver |-> Child(result, "driver").val,
                  Team |-> team.val, Q1 |-> Q1.val, Q2 |-> Q2.val, Q3 |-> Q3.val ])

\* the res['data'] entry of get_driver_poles (l.650-660) for the
\* <QualifyingResult> of a race (its 'Race', 'Circuit' and 'Date' copy texts
\* of the <Race>)
poles_data(quali_result) ==
    LET team == string(TagName(Child(quali_result, "constructor")))
        Q1 == string(Child(quali_result, "q1"))
        Q2 == string(Child(quali_result, "q2"))
        Q3 == string(Child(quali_result, "q3"))
    IN  IF FirstRaise(<<team, Q1, Q2, Q3>>) # NoCall
        THEN FirstRaise(<<team, Q1, Q2, Q3>>)
        ELSE Ok([ Team |-> team.val, Q1 |-> Q1.val, Q2 |-> Q2.val, Q3 |-> Q3.val ])

\* api.get_qualifying_results(rnd, season), from the soup on: res['data']
GetQualifyingResults ==
    /\ op = "get_qualifying_results"
    /\ dpc = "call"
    /\ ret' = ListOf([i \in 1..Len(arg.quali_results) |->
                        qualifying_data(arg.quali_results[i])])
    /\ dpc' = "done"
    /\ UNCHANGED <<op, arg, filterVars, driver_id, queryVars, careerVars>>

\* api.get_driver_poles(driver_id), the loop over the races: res['data']
GetDriverPoles ==
    /\ op = "get_driver_poles"
    /\ dpc = "call"
    /\ ret' = ListOf([i \in 1..Len(arg.quali_results) |->
                        poles_data(arg.quali_results[i])])
    /\ dpc' = "done"
    /\ UNCHANGED <<op, arg, filterVars, driver_id, queryVars, careerVars>>

(***************************************************************************)
(* utils.py: get_wiki_thumbnail.                                           *)
(***************************************************************************)
S_placeholder ==
    PyStr(<<"h", "t", "t", "p", "s", ":", "/", "/", "i", ".", "i", "m", "g", "u", "r", ".", "c", "o", "m", "/", "k", "v", "Z", "Y", "O", "u", "e", ".", "p", "n", "g">>)

S_wiki_url == PyStr(<<"h", "t", "t", "p", ":", "/", "/", "e", "n", ".", "w", "i", "k", "i", "p", "e", "d", "i", "a", ".", "o", "r", "g", "/", "w", "i", "k", "i", "/", "D", "a", "m", "o", "n", "_", "H", "i", "l", "l">>)
S_title    == PyStr(<<"D", "a", "m", "o", "n", "_", "H", "i", "l", "l">>)
S_thumb    == PyStr(<<"h", "t", "t", "p", "s", ":", "/", "/", "u", "p", "l", "o", "a", "d", ".", "w", "i", "k", "i", "m", "e", "d", "i", "a", ".", "o", "r", "g", "/", "D", "a", "m", "o", "n", "_", "H", "i", "l", "l", ".", "j", "p", "g">>)

\* the reference URLs callers pass: None, '', a Wikipedia link, a bare title
WikiUrls == {PyNone, S_empty, S_wiki_url, S_title}

\* x.rsplit(sep, 1): split at the last occurrence of the character sep
rsplit1(x, sep) ==
    IF \E i \in 1..Len(x.s) : x.s[i] = sep
    THEN LET i == CHOOSE i \in 1..Len(x.s) :
                    /\ x.s[i] = sep
                    /\ \A j \in (i + 1)..Len(x.s) : x.s[j] # sep
         IN  <<PyStr(SubSeq(x.s, 1, i - 1)), PyStr(SubSeq(x.s, i + 1, Len(x.s)))>>
    ELSE <<x>>

\* res = await fetch(api_query): None, or the decoded JSON of the page
\* lookup, whose first page has a thumbnail or has none
NoLookup == [kind |-> "", thumbnail |-> PyNone]

WikiResponses ==
    { [kind |-> "none", thumbnail |-> PyNone],
      [kind |-> "json", thumbnail |-> PyNone],
      [kind |-> "json", thumbnail |-> S_thumb] }

\* get_wiki_thumbnail up to `await fetch(api_query)`: the outcome when it
\* ends before, NoCall when it awaits the lookup
wiki_title(url) ==
    IF url = PyNone \/ url = S_empty THEN Ok(S_placeholder)
    ELSE IF PyItem(rsplit1(url, "/"), 1).st # "ok" THEN PyItem(rsplit1(url, "/"), 1)
    ELSE NoCall

\* get_wiki_thumbnail from the point where fetch has returned res
wiki_thumb(res) ==
    IF res.kind = "none" THEN Raise("TypeError")
    ELSE IF res.thumbnail # PyNone THEN Ok(res.thumbnail)
    ELSE Ok(S_placeholder)

\* utils.get_wiki_thumbnail(url) runs up to `await fetch(api_query)`
GetWikiThumbnail ==
    /\ op = "get_wiki_thumbnail"
    /\ dpc = "call"
    /\ ret' = wiki_title(arg.url)
    /\ dpc' = IF wiki_title(arg.url) = NoCall THEN "await_fetch" ELSE "done"
    /\ UNCHANGED <<op, arg, filterVars, driver_id, queryVars, careerVars>>

\* the transport answers the page lookup
WikiLookup ==
    /\ op = "get_wiki_thumbnail"
    /\ dpc = "await_fetch"
    /\ \E res \in WikiResponses :
        /\ arg' = [arg EXCEPT !.res = res]
        /\ ret' = wiki_thumb(res)
    /\ dpc' = "done"
    /\ UNCHANGED <<op, filterVars, driver_id, queryVars, careerVars>>

(***************************************************************************)
(* api/stats.py: filter_pitstops.                                          *)
(***************************************************************************)
S_best   == PyStr(<<"b", "e", "s", "t">>)
S_Best   == PyStr(<<"B", "e", "s", "t">>)
S_worst  == PyStr(<<"w", "o", "r", "s", "t">>)
S_ranked == PyStr(<<"r", "a", "n", "k", "e", "d">>)

\* the filter arguments the callers pass; None is the default
PitFilters == {PyNone, S_Best, S_worst, S_ranked}

\* str.lower() on ASCII text
lower(x) == casefold(x)

\* drv_lst: the entry of the i-th driver of the session
SessionDriver(i) ==
    [ driverId        |-> PyStr(<<"d", Digits[i + 1]>>),
      permanentNumber |-> Text(i),
      code            |-> PyStr(<<"D", Digits[i + 1]>>) ]

drv_lst == [i \in 1..MaxDrivers |-> SessionDriver(i)]

\* the driver arguments the callers pass; None is the default
PitDrivers == {PyNone, SessionDriver(1).code, S_smc12}

\* data["driverId"] of a row of res.content[0]
DriverIdOf(row) == SessionDriver(row.Driver).driverId

\* the races filter_pitstops is asked about: some stops were made, at most
\* MaxList of them, and the driver asked for made one
PitInputs ==
    { a \in [data : { l \in StopLists : Len(l) <= MaxList },
             filter : PitFilters, driver : PitDrivers] :
        /\ a.data # <<>>
        /\ a.driver = SessionDriver(1).code =>
                \E i \in 1..Len(a.data) : a.data[i].Driver = 1 }

\* data.loc[data["driverId"] == driver]: the rows of the driver, in order
RowsOf(data, driver) == SelectSeq(data, LAMBDA row : DriverIdOf(row) = driver)

\* data.loc[data.groupby("driverId")["duration"].idxmin()]: per driver, in
\* the order of the group keys, the first row with the least duration
BestPerDriver(data) ==
    LET first(d) == CHOOSE i \in 1..Len(data) :
            /\ data[i].Driver = d
            /\ \A j \in 1..Len(data) : data[j].Driver = d =>
                    \/ data[i].key < data[j].key
                    \/ data[i].key = data[j].key /\ i <= j
        groups == SelectSeq([d \in 1..MaxDrivers |-> d],
                            LAMBDA d : \E i \in 1..Len(data) : data[i].Driver = d)
    IN  [g \in 1..Len(groups) |-> data[first(groups[g])]]

\* rows.sort_values(by="duration"): ascending; the default sort is not
\* stable, so rows of equal duration come in any order
SortValues(rows) ==
    { [i \in 1..Len(rows) |-> rows[p[i]]] :
        p \in { q \in [1..Len(rows) -> 1..Len(rows)] :
                  /\ \A i, j \in 1..Len(rows) : i # j => q[i] # q[j]
                  /\ \A i \in 1..(Len(rows) - 1) :
                        rows[q[i]].key <= rows[q[i + 1]].key } }

\* df.loc[[df["duration"].idxmin()]] and idxmax: the first row with the
\* least (largest) duration
FirstMin(df) ==
    CHOOSE i \in 1..Len(df) :
        \A j \in 1..Len(df) : df[i].key < df[j].key \/ (df[i].key = df[j].key /\ i <= j)

FirstMax(df) ==
    CHOOSE i \in 1..Len(df) :
        \A j \in 1..Len(df) : df[i].key > df[j].key \/ (df[i].key = df[j].key /\ i <= j)

\* the columns ["No", "Code", "Stop", "Lap", "Duration"] of a row
Present(row) ==
    [ No       |-> SessionDriver(row.Driver).permanentNumber,
      Code     |-> SessionDriver(row.Driver).code,
      Lap      |-> row.Lap,
      Duration |-> row.key ]

\* filter_pitstops from the sorted frame df on (l.196-203)
pitstops_filtered(df, flt) ==
    IF flt = PyNone THEN Raise("AttributeError")
    ELSE LET best == IF lower(flt) = S_best THEN <<df[FirstMin(df)]>> ELSE df
             worst == IF lower(flt) = S_worst THEN <<best[FirstMax(best)]>> ELSE best
         IN  Ok([i \in 1..Len(worst) |-> Present(worst[i])])

\* stats.filter_pitstops(year, round, filter, driver)
FilterPitstops ==
    /\ op = "filter_pitstops"
    /\ dpc = "call"
    /\ LET found == IF arg.driver = PyNone THEN NoCall
                    ELSE find_driver(arg.driver, drv_lst)
       IN  IF found.st \notin {"none", "ok"} THEN ret' = found
           ELSE \E df \in SortValues(IF arg.driver = PyNone
                                      THEN BestPerDriver(arg.data)
                                      ELSE RowsOf(arg.data, found.val.driverId)) :
                    ret' = pitstops_filtered(df, arg.filter)
    /\ dpc' = "done"
    /\ UNCHANGED <<op, arg, filterVars, driver_id, queryVars, careerVars>>

(***************************************************************************)
(* api.py: the legacy rank_best_lap_times, next to the utils path.         *)
(***************************************************************************)
\* the values the two paths return: a dict (one entry) or a list of entries
Entry(e) == [type |-> "dict", items |-> <<e>>]
List(l) == [type |-> "list", items |-> l]

\* an outcome of filter_times, whose value is a list
AsList(o) == IF o.st = "ok" THEN Ok(List(o.val)) ELSE o

\* lst[i] for a 0-based or negative index i: the element itself
PyIndex(lst, i) ==
    LET j == IF i < 0 THEN i + Len(lst) ELSE i
    IN  IF j < 0 \/ j >= Len(lst) THEN Raise("IndexError") ELSE Ok(Entry(lst[j + 1]))

\* `filter is 'slowest'`: true only for the very object of the literal;
\* whether an equal str is that object (interned) is up to the interpreter
Is(f, literal, interned) == f = literal /\ interned

\* api.rank_best_lap_times(data, filter) on data['timings']
api_rank_best_lap_times(timings_, f, interned) ==
    LET sorted == Sorted(timings_)
    IN  IF Is(f, S_slowest, interned) THEN PyIndex(sorted, Len(sorted) - 1)
        ELSE IF Is(f, S_fastest, interned) THEN PyIndex(sorted, 0)
        ELSE IF Is(f, S_top, interned) THEN Ok(List(PySlice(sorted, 0, 5)))
        ELSE IF Is(f, S_bottom, interned)
             THEN Ok(List(PySlice(sorted, Len(sorted) - 5, Len(sorted))))
        ELSE Ok(List(sorted))

\* the timings the legacy function is called with: every short list, and
\* the longer ones in ascending and in descending order of rank
LegacyTimings ==
    { t \in LapTimings :
        \/ Len(t) <= MaxResults
        \/ \A i \in 1..Len(t) : t[i].key = i
        \/ \A i \in 1..Len(t) : t[i].key = Len(t) + 1 - i }

\* the legacy call
LegacyRank ==
    /\ op = "rank_best_lap_times"
    /\ dpc = "call"
    /\ ret' = api_rank_best_lap_times(arg.timings, arg.filter, arg.interned)
    /\ dpc' = "done"
    /\ UNCHANGED <<op, arg, filterVars, driver_id, queryVars, careerVars>>

\* the same timings and filter taken through the utils path
UtilsRank ==
    /\ op = "rank_best_lap_times"
    /\ dpc = "done"
    /\ arg' = [arg EXCEPT !.legacy = ret]
    /\ ret' = AsList(filter_times(rank_best_lap_times(arg.timings), arg.filter))
    /\ dpc' = "again"
    /\ UNCHANGED <<op, filterVars, driver_id, queryVars, careerVars>>

(***************************************************************************)
(* utils.py: age, too_long, make_table, filter_laps_by_driver.             *)
(***************************************************************************)
\* age(yob) with date.today().year read as `first` at the comparison and
\* as `second` at the subtraction, without the floor at 0
age_unfloored(yob, first, second) == second - int(yob)

\* age(yob): current_year() is called for the comparison (first) and again
\* for the subtraction (second)
age(yob, first, second) ==
    IF first < int(yob) THEN 0 ELSE second - int(yob)

\* utils.age(yob); the year may turn between the two readings of the clock
Age ==
    /\ op = "age"
    /\ dpc = "call"
    /\ \E second \in {arg.today, arg.today + 1} :
        /\ second <= MaxYear
        /\ second # arg.today => ~(arg.today < int(arg.yob))
        /\ ret' = Ok(age(arg.yob, arg.today, second))
        /\ arg' = [arg EXCEPT !.today = second]
    /\ dpc' = "done"
    /\ UNCHANGED <<op, filterVars, driver_id, queryVars, careerVars>>

\* Discord's message limit
Limit == 2000

\* len(message) >= 2000
too_long(len) == len >= Limit

\* the lengths of the table tabulate builds in the 'fancy_grid' and in the
\* 'plain' format: the plain one has no borders
TableLengths ==
    { t \in [fancy : (Limit - 2)..(Limit + 1), plain : (Limit - 2)..(Limit + 1)] :
        t.plain <= t.fancy }

\* make_table(data) for data that tabulates to the lengths t: the length of
\* the returned table
make_table(t) ==
    IF too_long(t.fancy)
    THEN IF too_long(t.plain) THEN Raise("MessageTooLongError") ELSE Ok(t.plain)
    ELSE Ok(t.fancy)

\* utils.make_table(data, headers, fmt)
MakeTable ==
    /\ op = "make_table"
    /\ dpc = "call"
    /\ ret' = make_table(arg)
    /\ dpc' = "done"
    /\ UNCHANGED <<op, arg, filterVars, driver_id, queryVars, careerVars>>

\* the timing entries of one lap: some drivers, each once, by position
LapEntries ==
    UNION {
        { [i \in 1..n |-> [id |-> f[i], pos |-> i]] :
            f \in { g \in [1..n -> 1..MaxDrivers] :
                      \A i, j \in 1..n : i # j => g[i] # g[j] } }
        : n \in 0..MaxDrivers }

\* the driver lists callers pass, each driver once
DriverArgs ==
    UNION {
        { g \in [1..n -> 1..MaxDrivers] : \A i, j \in 1..n : i < j => g[i] < g[j] }
        : n \in 0..MaxDrivers }

\* laps: the 'data' dict (lap number -> entries, laps in order) and the
\* 'race' key, which a dataset may lack (None); 'season' and 'round' are
\* treated like 'race'
LapSets ==
    [ data : UNION { [1..n -> LapEntries] : n \in 0..MaxLaps },
      race : {PyNone, PyStr(<<"M", "o", "n", "a", "c", "o">>)} ]

\* filter_laps_by_driver leaving out the laps none of the drivers drove
filter_laps_drop_empty(laps, drivers) ==
    IF Len(drivers) = 0 THEN laps
    ELSE [ data |-> SelectSeq(
                        [lap \in 1..Len(laps.data) |->
                            SelectSeq(laps.data[lap],
                                      LAMBDA t : \E i \in 1..Len(drivers) : drivers[i] = t.id)],
                        LAMBDA times : times # <<>>),
           race |-> IF laps.race = PyNone THEN S_empty ELSE laps.race ]

\* filter_laps_by_driver(laps, drivers)
filter_laps_by_driver(laps, drivers) ==
    IF Len(drivers) = 0 THEN laps
    ELSE [ data |-> [lap \in 1..Len(laps.data) |->
                        SelectSeq(laps.data[lap],
                                  LAMBDA t : \E i \in 1..Len(drivers) : drivers[i] = t.id)],
           \* laps.get('race', '')
           race |-> IF laps.race = PyNone THEN S_empty ELSE laps.race ]

\* utils.filter_laps_by_driver(laps, drivers)
FilterLapsByDriver ==
    /\ op = "filter_laps_by_driver"
    /\ dpc = "call"
    /\ ret' = Ok(filter_laps_by_driver(arg.laps, arg.drivers))
    /\ dpc' = "done"
    /\ UNCHANGED <<op, arg, filterVars, driver_id, queryVars, careerVars>>

(***************************************************************************)
(* SpecData: the input is drawn in Init; the actions apply the function.   *)
(***************************************************************************)
InitData ==
    /\ IdleFilter
    /\ driver_id = ""
    /\ IdleQuery
    /\ IdleCareer
    /\ ret = NoCall
    /\ dpc = "call"
    /\ \/ /\ op = "keep_fastest"
          /\ arg \in {[lst |-> l, key |-> "key", first |-> <<>>] : l \in StopLists}
       \/ /\ op = "find_driver"
          /\ arg \in [id : DriverIdentifiers, drivers : DriverLists]
       \/ /\ op = "get_race_results"
          /\ arg \in [race_results : RacePayloads]
       \/ /\ op \in {"get_qualifying_results", "get_driver_poles"}
          /\ arg \in [quali_results : QualifyingPayloads]
       \/ /\ op = "get_wiki_thumbnail"
          /\ arg \in [url : WikiUrls, res : {NoLookup}]
       \/ /\ op = "filter_pitstops"
          /\ arg \in PitInputs
       \/ /\ op = "age"
          /\ arg \in [yob : {Text(y) : y \in 0..MaxYear}, today : 1..MaxYear]
       \/ /\ op = "make_table"
          /\ arg \in TableLengths
       \/ /\ op = "filter_laps_by_driver"
          /\ arg \in [laps : LapSets, drivers : DriverArgs]
       \/ /\ op = "rank_best_lap_times"
          /\ arg \in [timings : LegacyTimings, filter : Filters, interned : BOOLEAN,
                      legacy : {NoCall}]

NextData ==
    \/ KeepFastest
    \/ KeepFastestAgain
    \/ FindDriver
    \/ GetRaceResults
    \/ GetQualifyingResults
    \/ GetDriverPoles
    \/ GetWikiThumbnail
    \/ WikiLookup
    \/ FilterPitstops
    \/ Age
    \/ MakeTable
    \/ FilterLapsByDriver
    \/ LegacyRank
    \/ UtilsRank

SpecData == InitData /\ [][NextData]_vars

(***************************************************************************)
(* Properties of the data functions (SpecData).                            *)
(***************************************************************************)
KeptOnce == op = "keep_fastest" /\ dpc = "done"

IsAscending(lst) == \A i \in 1..(Len(lst) - 1) : lst[i].key <= lst[i + 1].key

DriversOf(lst) == { lst[i].Driver : i \in 1..Len(lst) }

\* position of the first entry of driver drv in lst
FirstOf(lst, drv) ==
    CHOOSE i \in 1..Len(lst) :
        /\ lst[i].Driver = drv
        /\ \A j \in 1..(i - 1) : lst[j].Driver # drv

\* C11: keep_fastest is idempotent: applied to its own result it returns
\* that result, same entries in the same order.
C11_KeepFastestIdempotent ==
    (op = "keep_fastest" /\ dpc = "again") => ret = Ok(arg.lst)

\* keep_fastest was applied twice to a list from which the first application
\* removed an entry and replaced another, leaving two drivers
C11_Witness ==
    /\ op = "keep_fastest"
    /\ dpc = "again"
    /\ Len(ret.val) >= 2
    /\ Len(arg.first) > Len(arg.lst)
    /\ \E i \in 1..Len(arg.lst) :
        arg.lst[i] # arg.first[FirstOf(arg.first, arg.lst[i].Driver)]

\* C12: on an input sorted ascending by the key, keep_fastest returns one
\* entry per distinct Driver, which is the first entry of that driver in the
\* input, and lists the drivers in the order they are first seen.
C12_SortedKeepsFirstPerDriver ==
    (KeptOnce /\ IsAscending(arg.lst)) =>
        /\ ret.st = "ok"
        /\ Len(ret.val) = Cardinality(DriversOf(arg.lst))
        /\ \A j \in 1..Len(ret.val) :
            ret.val[j] = arg.lst[FirstOf(arg.lst, ret.val[j].Driver)]
        /\ \A j, k \in 1..Len(ret.val) :
            j < k => FirstOf(arg.lst, ret.val[j].Driver)
                        < FirstOf(arg.lst, ret.val[k].Driver)

\* a sorted input with two drivers, one of them with two stops of equal
\* duration, was deduplicated
C12_Witness ==
    /\ KeptOnce
    /\ IsAscending(arg.lst)
    /\ Cardinality(DriversOf(arg.lst)) >= 2
    /\ \E i, j \in 1..Len(arg.lst) :
        /\ i < j
        /\ arg.lst[i].Driver = arg.lst[j].Driver
        /\ arg.lst[i].key = arg.lst[j].key
    /\ Len(ret.val) < Len(arg.lst)

Found == op = "find_driver" /\ dpc = "done"

\* id is the slug, the code or the number of d, in any letter case
Identifies(id, d) == casefold(id) \in { casefold(d[k]) : k \in KeyFields }

\* C13: looking a driver of the list up by its slug, its code or its
\* permanent number, in any letter case, returns that driver's entry.
C13_LookupReturnsTheDriver ==
    Found =>
        \A i \in 1..Len(arg.drivers) :
            Identifies(arg.id, arg.drivers[i]) => ret = Ok(arg.drivers[i])

\* C14: find_driver raises DriverNotFoundError whenever the identifier is
\* the slug, the code or the number of no entry, even when it equals another
\* value of an entry.
C14_OnlySlugCodeNumberMatch ==
    (Found /\ \A i \in 1..Len(arg.drivers) : ~Identifies(arg.id, arg.drivers[i]))
        => ret = Raise("DriverNotFoundError")

RaceParsed == op = "get_race_results" /\ dpc = "done" /\ ret.st = "ok"

\* the results of the payload that carry a fastest lap, in payload order
WithFastestLap ==
    SelectSeq(arg.race_results, LAMBDA r : \E i \in 1..Len(r.children) :
                                            r.children[i].tag = "fastestlap")

\* the rank attribute of the fastest lap of result r
RankOf(r) ==
    int((CHOOSE c \in Range(r.children) : c.tag = "fastestlap").val)

\* C15 (as stated): the timings of get_race_results are sorted strictly
\* ascending by Rank, starting at 1, whatever the finishing order.
C15_TimingsAscendingFromOne ==
    RaceParsed =>
        LET t == ret.val.timings
        IN  /\ \A i, j \in 1..Len(t) : i < j => t[i].Rank < t[j].Rank
            /\ Len(t) > 0 => t[1].Rank = 1

\* C15 (amended): the timings of get_race_results hold one entry per result
\* that carries a fastest lap, in the finishing order of the payload, each
\* with the rank and driver of its result; they ascend by Rank exactly when
\* the payload lists those results by ascending rank.
C15_TimingsInFinishingOrder ==
    RaceParsed =>
        LET t == ret.val.timings
        IN  /\ Len(t) = Len(WithFastestLap)
            /\ \A k \in 1..Len(t) :
                /\ t[k].Rank = RankOf(WithFastestLap[k])
                /\ t[k].Driver =
                    (CHOOSE c \in Range(WithFastestLap[k].children) : c.tag = "driver").val
            /\ (\A i, j \in 1..Len(t) : i < j => t[i].Rank < t[j].Rank)
                <=> (\A i, j \in 1..Len(WithFastestLap) :
                        i < j => RankOf(WithFastestLap[i]) < RankOf(WithFastestLap[j]))

\* a race was parsed whose winner did not set the fastest lap and one of
\* whose drivers set no timed lap
C15_Witness ==
    /\ RaceParsed
    /\ Len(ret.val.timings) >= 2
    /\ Len(ret.val.timings) < Len(arg.race_results)
    /\ ret.val.timings[1].Rank # 1

\* C16: an entry of 'data' whose result carries a finish time has that time
\* as 'Time'; a retiree has 'Time' absent and a textual 'Status'.
C16_FinishTimePopulated ==
    RaceParsed =>
        \A i \in 1..Len(arg.race_results) :
            LET r == arg.race_results[i]
                e == ret.val.data[i]
            IN  IF \E k \in 1..Len(r.children) : r.children[k].tag = "time"
                THEN e.Time = S_finish_time
                ELSE e.Time = PyNone /\ e.Status = S_Engine

\* C17: get_qualifying_results and get_driver_poles give a session time
\* that the payload lacks as an explicit absent value in the returned entry
\* and do not fail.
C17_MissingSessionIsAbsent ==
    (op \in {"get_qualifying_results", "get_driver_poles"} /\ dpc = "done") =>
        /\ ret.st = "ok"
        /\ \A i \in 1..Len(arg.quali_results) :
            LET has == { c.tag : c \in Range(arg.quali_results[i].children) }
            IN  /\ ret.val[i].Q1 = IF "q1" \in has THEN S_q(1) ELSE PyNone
                /\ ret.val[i].Q2 = IF "q2" \in has THEN S_q(2) ELSE PyNone
                /\ ret.val[i].Q3 = IF "q3" \in has THEN S_q(3) ELSE PyNone

\* C18: get_wiki_thumbnail does not fail when no thumbnail is available:
\* for a reference URL that is None or empty, for a page lookup that gives no
\* payload and for a page without a thumbnail it returns the placeholder URL.
C18_NoThumbnailGivesPlaceholder ==
    (/\ op = "get_wiki_thumbnail"
     /\ dpc = "done"
     /\ \/ arg.url \in {PyNone, S_empty}
        \/ arg.res.kind = "none"
        \/ arg.res.kind = "json" /\ arg.res.thumbnail = PyNone) =>
        ret = Ok(S_placeholder)

\* C19: filter_pitstops called with neither a filter nor a driver does not
\* fail and returns one row per driver, which holds the least duration of
\* that driver's stops, the rows in ascending order of duration.
C19_NoFilterBestPerDriver ==
    (/\ op = "filter_pitstops"
     /\ dpc = "done"
     /\ arg.filter = PyNone
     /\ arg.driver = PyNone) =>
        /\ ret.st = "ok"
        /\ Len(ret.val) = Cardinality(DriversOf(arg.data))
        /\ \A i \in 1..Len(arg.data) :
            \E r \in Range(ret.val) :
                /\ r.Code = SessionDriver(arg.data[i].Driver).code
                /\ r.Duration <= arg.data[i].key
        /\ \A i \in 1..(Len(ret.val) - 1) : ret.val[i].Duration <= ret.val[i + 1].Duration

\* C30: on an input that is not sorted by the key, keep_fastest returns one
\* entry per distinct Driver, which has the least key of that driver's
\* entries (the earliest of them on ties), the drivers in the order of their
\* first appearance in the input; the input list is left as it was.
C30_UnsortedKeepsLeastPerDriver ==
    [][(op = "keep_fastest" /\ dpc = "call" /\ dpc' = "done" /\ ~IsAscending(arg.lst)) =>
        /\ arg' = arg
        /\ ret'.st = "ok"
        /\ Len(ret'.val) = Cardinality(DriversOf(arg.lst))
        /\ \A j \in 1..Len(ret'.val) :
            \E i \in 1..Len(arg.lst) :
                /\ ret'.val[j] = arg.lst[i]
                /\ \A k \in 1..Len(arg.lst) :
                    arg.lst[k].Driver = arg.lst[i].Driver =>
                        \/ arg.lst[i].key < arg.lst[k].key
                        \/ arg.lst[i].key = arg.lst[k].key /\ i <= k
        /\ \A j, k \in 1..Len(ret'.val) :
            j < k => FirstOf(arg.lst, ret'.val[j].Driver)
                        < FirstOf(arg.lst, ret'.val[k].Driver)]_vars

\* an unsorted input was deduplicated in which the driver seen first got a
\* faster stop after the first stop of another driver
C30_Witness ==
    /\ KeptOnce
    /\ ~IsAscending(arg.lst)
    /\ Len(ret.val) >= 2
    /\ ret.val[1] # arg.lst[1]
    /\ ret.val[1].Lap > ret.val[2].Lap

\* both paths were taken with one of the four mode strings, the legacy one
\* recognising it
BothRanked ==
    /\ op = "rank_best_lap_times"
    /\ dpc = "again"
    /\ arg.filter \in {S_fastest, S_slowest, S_top, S_bottom}
    /\ arg.interned

\* C29: for every timings list and each of the filters 'fastest',
\* 'slowest', 'top', 'bottom', api.rank_best_lap_times returns the
\* same value as utils.filter_times(utils.rank_best_lap_times(..), filter).
C29_LegacyEqualsUtils ==
    BothRanked => arg.legacy = ret

(***************************************************************************)
(* SpecCache: the transport's response cache (fetch.cache), requested      *)
(* through a CachedSession as in test_cached_results.                      *)
(* arg is the session: the cache, the clock and the request being made;    *)
(* ret is the last response.                                               *)
(***************************************************************************)
Urls == 1..MaxUrls

NoEntry == [stored |-> -1, expire_after |-> 0]

NoRequest == [url |-> 0, expire_after |-> 0]

\* the entry is served whatever its age as long as it is younger than the
\* expiry the request names
Fresh_by_request(entry, now, expire_after) ==
    entry # NoEntry /\ now - entry.stored < expire_after

\* an entry younger than its expiry is served; the expiry is the one the
\* request that stored the entry named
Fresh(entry, now, expire_after) ==
    entry # NoEntry /\ now - entry.stored < entry.expire_after

\* the response of session.get(url, expire_after) when the network call, if
\* one is made, ends as `network` ("ok" | "failed")
get(session, network) ==
    LET req == session.req
        entry == session.cache[req.url]
    IN  IF Fresh(entry, session.now, req.expire_after)
        THEN [url |-> req.url, from_cache |-> TRUE, network |-> "none"]
        ELSE [url |-> req.url, from_cache |-> FALSE, network |-> network]

\* the cache after that response: a payload fetched from the network is
\* stored with the time and the expiry of its request
store(session, res) ==
    IF res.network = "ok"
    THEN [session.cache EXCEPT ![res.url] =
            [stored |-> session.now, expire_after |-> session.req.expire_after]]
    ELSE session.cache

InitCache ==
    /\ IdleFilter
    /\ driver_id = ""
    /\ IdleQuery
    /\ IdleCareer
    /\ op = "fetch"
    /\ arg = [cache |-> [u \in Urls |-> NoEntry], now |-> 0, req |-> NoRequest]
    /\ ret = NoCall
    /\ dpc = "call"

\* res = await session.get(url=url, expire_after=...): the request is made
Request ==
    /\ op = "fetch"
    /\ dpc \in {"call", "done"}
    /\ \E u \in Urls, e \in 1..MaxExpire :
        arg' = [arg EXCEPT !.req = [url |-> u, expire_after |-> e]]
    /\ dpc' = "await_fetch"
    /\ UNCHANGED <<op, ret, filterVars, driver_id, queryVars, careerVars>>

\* the session answers from the cache or from the network
Respond ==
    /\ op = "fetch"
    /\ dpc = "await_fetch"
    /\ \E network \in {"ok", "failed"} :
        /\ ret' = Ok(get(arg, network))
        /\ arg' = [arg EXCEPT !.cache = store(arg, ret'.val)]
    /\ dpc' = "done"
    /\ UNCHANGED <<op, filterVars, driver_id, queryVars, careerVars>>

\* time passes
Tick ==
    /\ op = "fetch"
    /\ arg.now < MaxTime
    /\ arg' = [arg EXCEPT !.now = arg.now + 1]
    /\ UNCHANGED <<op, ret, dpc, filterVars, driver_id, queryVars, careerVars>>

NextCache ==
    \/ Request
    \/ Respond
    \/ Tick

SpecCache == InitCache /\ [][NextCache]_vars

\* C21: a request for a URL whose payload was fetched from the network and
\* stored, made before that entry expires, is answered from the cache
\* without a network call and leaves the cache as it is; a request for a URL
\* that has no entry is not answered from the cache.
C21_FreshEntryServedFromCache ==
    [][ (dpc = "await_fetch" /\ dpc' = "done") =>
          LET entry == arg.cache[arg.req.url]
          IN  /\ (entry # NoEntry /\ arg.now < entry.stored + entry.expire_after) =>
                    /\ ret'.val.from_cache
                    /\ ret'.val.network = "none"
                    /\ arg'.cache = arg.cache
              /\ entry = NoEntry => ~ret'.val.from_cache ]_vars

\* a second request for a URL, naming a shorter expiry than the first and
\* made later but before the stored entry expired, was answered from the
\* cache
C21_Witness ==
    /\ op = "fetch"
    /\ dpc = "done"
    /\ ret.val.from_cache
    /\ arg.cache[ret.val.url].stored < arg.now
    /\ arg.req.expire_after < arg.cache[ret.val.url].expire_after
    /\ arg.now - arg.cache[ret.val.url].stored >= arg.req.expire_after

\* C22: age(yob) is the current year minus the birth year when the birth
\* year is not after the current year, and 0 when the birth year is in the
\* future; it is never negative.  The current year is the year in which the
\* call returns.
C22_AgeFlooredAtZero ==
    (op = "age" /\ dpc = "done") =>
        /\ ret.st = "ok"
        /\ ret.val >= 0
        /\ ret.val = IF int(arg.yob) <= arg.today THEN arg.today - int(arg.yob) ELSE 0

\* the age was asked of a birth year in the future
C22_Witness ==
    /\ op = "age"
    /\ dpc = "done"
    /\ int(arg.yob) > arg.today + 1
    /\ ret = Ok(0)

\* C23: make_table raises MessageTooLongError exactly when the table is
\* longer than 2000 characters in both formats; a table of exactly 2000
\* characters is returned, and a returned table has at most 2000 characters.
C23_RaisesOnlyBeyondLimit ==
    (op = "make_table" /\ dpc = "done") =>
        /\ ret.st = "MessageTooLongError" <=> (arg.fancy > Limit /\ arg.plain > Limit)
        /\ ret.st \in {"ok", "MessageTooLongError"}
        /\ ret.st = "ok" => ret.val <= Limit

\* C24: filter_laps_by_driver with a non-empty driver list keeps every lap
\* of the input and, of each lap, the timing entries whose id is in the
\* driver list, in their order; with an empty driver list it returns the
\* input unchanged.
C24_KeepsLapsFiltersEntries ==
    (op = "filter_laps_by_driver" /\ dpc = "done") =>
        /\ ret.st = "ok"
        /\ arg.drivers = <<>> => ret.val = arg.laps
        /\ arg.drivers # <<>> =>
            /\ Len(ret.val.data) = Len(arg.laps.data)
            /\ \A lap \in 1..Len(arg.laps.data) :
                LET in == arg.laps.data[lap]
                    out == ret.val.data[lap]
                IN  /\ \A t \in Range(in) :
                        t \in Range(out) <=> t.id \in Range(arg.drivers)
                    /\ Range(out) \subseteq Range(in)
                    /\ \A i \in 1..(Len(out) - 1) : out[i].pos < out[i + 1].pos

\* two laps were filtered by a driver who drove only the second of them,
\* which lost another driver's entry
C24_Witness ==
    /\ op = "filter_laps_by_driver"
    /\ dpc = "done"
    /\ arg.drivers # <<>>
    /\ Len(arg.laps.data) = 2
    /\ arg.laps.data[1] # <<>>
    /\ ret.val.data[1] = <<>>
    /\ ret.val.data[2] # <<>>
    /\ Len(ret.val.data[2]) < Len(arg.laps.data[2])

=============================================================================
